---- MODULE Spec2Model ----
(***************************************************************************)
(* Model of trytond-ebay's sale.py: the duplicate guard on ebay_order_id   *)
(* (Sale.validate / Sale.check_ebay_order_id), the order importer          *)
(* (Sale.find_or_create_using_ebay_id, Sale.create_using_ebay_data) and    *)
(* the line mapping (get_item_line_data_using_ebay_data,                   *)
(* get_shipping_line_data_using_ebay_data).                                *)
(*                                                                         *)
(* Amounts are integers (minor currency units), so Decimal parsing and     *)
(* currency rounding are exact.  Rows written inside a transaction carry   *)
(* the number of the call that wrote them in the field "by" until the      *)
(* ambient transaction commits (by = 0) or rolls back (row removed).       *)
(***************************************************************************)
EXTENDS Integers, Sequences, FiniteSets, TLC

\* ------------------------------------------------------------------ bounds
MaxItems == 2       \* longest transaction list the marketplace returns
MaxSales == 3       \* cap on the number of sales for plain creates

\* ------------------------------------------------------------- input sets
OrderIDs == {"o1", "o2"}
Procs == {1, 2}
Absent == -1                          \* ShippingServiceCost key missing
ShipCosts == {Absent, 0, 1}
Totals == {3, 5}
Item(i, p, q) == [ItemID |-> i, Title |-> i, TransactionPrice |-> p,
                  QuantityPurchased |-> q]
Items == {Item("i1", 1, 2), Item("i2", 3, 1)}
NoItem == Item("", 0, 0)
NoOrder == [OrderID |-> "", Transaction |-> [tag |-> "none", dict |-> NoItem,
            list |-> <<>>], ShippingServiceCost |-> Absent, Total |-> 0]

\* Sequences over S of length 1..n
RECURSIVE SeqsUpTo(_, _)
SeqsUpTo(S, n) ==
    IF n = 0 THEN {}
    ELSE LET shorter == SeqsUpTo(S, n - 1)
         IN  {<<x>> : x \in S} \cup shorter
             \cup {Append(s, x) : s \in shorter, x \in S}

\* The upstream API gives a one-item order as a bare mapping ("dict") and a
\* multi-item order as a list of mappings ("list").
DictTransactions == {[tag |-> "dict", dict |-> it, list |-> <<>>] : it \in Items}
ListTransactions ==
    {[tag |-> "list", dict |-> NoItem, list |-> l] : l \in SeqsUpTo(Items, MaxItems)}
OrderData(oid) ==
    {[OrderID |-> oid, Transaction |-> t, ShippingServiceCost |-> c, Total |-> tot] :
        t \in DictTransactions \cup ListTransactions, c \in ShipCosts, tot \in Totals}
AllOrders == UNION {OrderData(oid) : oid \in OrderIDs}
\* One-item orders without a shipping cost: one whose total matches, one not
SmallOrders ==
    {od \in AllOrders : /\ od.Transaction.tag = "dict"
                        /\ od.Transaction.dict.ItemID = "i2"
                        /\ od.ShippingServiceCost = Absent}

\* ------------------------------------------------------------------ state
VARIABLES
    sales,       \* sale.sale rows: [id, ebay_order_id, state, trace, lines, by]
    excs,        \* channel.exception rows: [id, origin, by]
    parties,     \* rows written by the buyer lookup: [kind, key, item, by]
    products,    \* product rows written by import_product: [key, by]
    channelOK,   \* the current channel is a correctly configured eBay channel
    nCurrency,   \* number of currency records matching the order's code
    nUnit,       \* number of product.uom records named 'Unit'
    iso,         \* isolation of the ambient transaction
    call,        \* per call: position, arguments, locals and bookkeeping
    returnedFor, \* order id -> sale an earlier finished call returned (0: none)
    lastSave     \* outcome of the last plain save (create / write)

vars == <<sales, excs, parties, products, channelOK, nCurrency, nUnit, iso,
          call, returnedFor, lastSave>>

dbVars == <<sales, excs, parties, products>>
envVars == <<channelOK, nCurrency, nUnit, iso>>

\* ---------------------------------------------------------------- helpers
RECURSIVE SumSeq(_)
SumSeq(s) == IF s = <<>> THEN 0 ELSE Head(s) + SumSeq(Tail(s))

MaxOf(S) == IF S = {} THEN 0 ELSE CHOOSE m \in S : \A x \in S : x <= m

Committed(rows) == {r \in rows : r.by = 0}
CommittedDb == [sales |-> Committed(sales), excs |-> Committed(excs),
                parties |-> Committed(parties), products |-> Committed(products)]

\* Rows a transaction reads: its own writes and, of the committed rows, all
\* (read committed) or those of its snapshot (repeatable read).
Visible(p, snap) ==
    {s \in sales : s.by = p
        \/ (s.by = 0 /\ (iso = "read_committed" \/ s.id \in snap))}

NewId == MaxOf({s.id : s \in sales}) + 1

\* ------------------------------------------------------- Sale (sale.py)
\* Variant: draft sales are not matched
search_confirmed(rows, order_id) ==
    {s \in rows : s.ebay_order_id = order_id /\ s.state = "confirmed"}

\* cls.search([('ebay_order_id', '=', order_id)]) over the given rows
search(rows, order_id) == {s \in rows : s.ebay_order_id = order_id}

\* Variant: the other sale is looked for among the later ids only
check_ebay_order_id_later(self, rows) ==
    /\ self.ebay_order_id # ""
    /\ \E t \in search(rows, self.ebay_order_id) : t.id > self.id

\* TRUE when check_ebay_order_id raises 'invalid_sale' for the sale `self`
check_ebay_order_id(self, rows) ==
    /\ self.ebay_order_id # ""
    /\ \E t \in search(rows, self.ebay_order_id) : t.id # self.id

\* Variant: validate does not run the check
validate_unchecked(saved, rows) == FALSE

\* validate(sales) raises when the check of any of the saved sales raises
validate(saved, rows) == \E s \in saved : check_ebay_order_id(s, rows)

\* Variant: of a list only the first transaction is taken
items_of_first(order_data) ==
    LET transaction == order_data.Transaction
    IN  IF transaction.tag = "dict" THEN <<transaction.dict>>
        ELSE <<transaction.list[1]>>

\* The transaction list normalised to one sequence (lines 211-218)
items_of(order_data) ==
    LET transaction == order_data.Transaction
    IN  IF transaction.tag = "dict" THEN <<transaction.dict>> ELSE transaction.list

\* The first transaction, whose ItemID goes to the buyer lookup (lines 121-137)
item_id(order_data) ==
    LET transaction == order_data.Transaction
        item == IF transaction.tag = "dict" THEN transaction.dict
                ELSE transaction.list[1]
    IN  item.ItemID

get_item_line_data_using_ebay_data(order_data) ==
    LET items == items_of(order_data)
    IN  [i \in 1..Len(items) |->
            [description |-> items[i].Title,
             unit_price  |-> items[i].TransactionPrice,
             quantity    |-> items[i].QuantityPurchased,
             product     |-> items[i].ItemID]]

get_shipping_line_data_using_ebay_data(order_data) ==
    [description |-> "eBay Shipping and Handling",
     unit_price  |-> IF order_data.ShippingServiceCost = Absent THEN 0
                     ELSE order_data.ShippingServiceCost,
     quantity    |-> 1,
     product     |-> ""]

\* sale.total_amount: the sum of the line amounts (no taxes on created lines)
total_amount(sale) ==
    SumSeq([i \in 1..Len(sale.lines) |->
                sale.lines[i].unit_price * sale.lines[i].quantity])

\* Variant: the shipping line is left out of the comparison
total_mismatch_items_only(sale, order_data) ==
    total_amount([sale EXCEPT !.lines = SubSeq(@, 1, Len(@) - 1)]) # order_data.Total

\* Variant: only a sale total above the reported total counts as a mismatch
total_mismatch_above(sale, order_data) == total_amount(sale) > order_data.Total

\* The comparison of line 176: TRUE when the totals differ
total_mismatch(sale, order_data) == total_amount(sale) # order_data.Total

\* ------------------------------------------------------------ call state
EmptyDb == [sales |-> {}, excs |-> {}, parties |-> {}, products |-> {}]
NoSave == [kind |-> "none", eid |-> "", dup |-> FALSE, ok |-> TRUE, before |-> {}]
NoCall == [pc |-> "idle", fn |-> "", arg |-> "", order |-> NoOrder, lines |-> <<>>,
           created |-> 0, result |-> 0, err |-> "", validated |-> FALSE,
           api |-> FALSE, pre |-> EmptyDb, known |-> 0, snapshot |-> {},
           visAtCheck |-> {}]

Free(p) == call[p].pc \in {"idle", "done"}
At(p, where) == call[p].pc = where
Goto(p, where) == call' = [call EXCEPT ![p].pc = where]
Raise(p, e) == call' = [call EXCEPT ![p].pc = "raised", ![p].err = e]
Reads(p) == Visible(p, call[p].snapshot)

\* The state of a call that has just been entered
Entered(f, oid) ==
    [NoCall EXCEPT !.fn = f, !.arg = oid, !.pre = CommittedDb,
                   !.known = returnedFor[oid],
                   !.snapshot = {s.id : s \in Committed(sales)}]

Init ==
    /\ sales = {} /\ excs = {} /\ parties = {} /\ products = {}
    /\ channelOK \in BOOLEAN
    /\ nCurrency \in 0..2
    /\ nUnit \in 0..2
    /\ iso = "read_committed"
    /\ call = [p \in Procs |-> NoCall]
    /\ returnedFor = [o \in OrderIDs |-> 0]
    /\ lastSave = NoSave

\* ---------------------------------------- find_or_create_using_ebay_id
\* Lines 72-76: search by order id; a hit is returned at once.
find_or_create_using_ebay_id(p, order_id) ==
    /\ Free(p)
    /\   LET c == Entered("find_or_create_using_ebay_id", order_id)
             found == search(Visible(p, c.snapshot), order_id)
         IN  IF found # {}
             THEN \E s \in found :
                    call' = [call EXCEPT ![p] =
                        [c EXCEPT !.pc = "returned", !.result = s.id]]
             ELSE call' = [call EXCEPT ![p] = [c EXCEPT !.pc = "validate"]]
    /\ lastSave' = NoSave
    /\ UNCHANGED <<dbVars, envVars, returnedFor>>

\* validate_ebay_channel (channel.py): raises unless the channel is an eBay
\* channel with its credentials set.
validate_ebay_channel(p, next) ==
    IF channelOK
    THEN call' = [call EXCEPT ![p].pc = next, ![p].validated = TRUE]
    ELSE call' = [call EXCEPT ![p].pc = "raised", ![p].err = "config",
                              ![p].validated = TRUE]

\* Variant: the channel is not validated before the API is asked
ValidateChannel_skipped(p) ==
    /\ At(p, "validate")
    /\ Goto(p, "api")
    /\ UNCHANGED <<dbVars, envVars, returnedFor, lastSave>>

\* Lines 78-79
ValidateChannel(p) ==
    /\ At(p, "validate")
    /\ validate_ebay_channel(p, "api")
    /\ UNCHANGED <<dbVars, envVars, returnedFor, lastSave>>

\* Lines 81-91: get the trading API, execute GetOrders for exactly this id
\* and hand the order to create_using_ebay_data; the API client may raise.
GetOrders(p, marketplace) ==
    /\ At(p, "api")
    /\ \/ \E od \in {o \in marketplace : o.OrderID = call[p].arg} :
            call' = [call EXCEPT ![p].pc = "c_validate", ![p].api = TRUE,
                                 ![p].order = od]
       \/ call' = [call EXCEPT ![p].pc = "raised", ![p].err = "api",
                               ![p].api = TRUE]
    /\ UNCHANGED <<dbVars, envVars, returnedFor, lastSave>>

\* ------------------------------------------------ create_using_ebay_data
\* Called directly with the data of an order.
create_using_ebay_data(p, order_data) ==
    /\ Free(p)
    /\ call' = [call EXCEPT ![p] =
           [Entered("create_using_ebay_data", order_data.OrderID) EXCEPT
               !.pc = "c_validate", !.order = order_data]]
    /\ lastSave' = NoSave
    /\ UNCHANGED <<dbVars, envVars, returnedFor>>

\* Lines 109-111
CreateValidateChannel(p) ==
    /\ At(p, "c_validate")
    /\ validate_ebay_channel(p, "currency")
    /\ UNCHANGED <<dbVars, envVars, returnedFor, lastSave>>

\* Number of records `currency, = Currency.search([...], limit=1)` unpacks
currency_found == IF nCurrency > 1 THEN 1 ELSE nCurrency

\* Variant: the unit search is limited to one record as well
unit_found_limit == IF nUnit > 1 THEN 1 ELSE nUnit

\* Number of records `unit, = Uom.search([('name', '=', 'Unit')])` unpacks
unit_found == nUnit

\* Lines 113-115: unpacking anything but one record raises
CurrencySearch(p) ==
    /\ At(p, "currency")
    /\ IF currency_found = 1 THEN Goto(p, "party") ELSE Raise(p, "lookup")
    /\ UNCHANGED <<dbVars, envVars, returnedFor, lastSave>>

\* Rows the buyer lookup, the phone and the address steps add when missing
BuyerRows(p, od) ==
    {[kind |-> k, key |-> "buyer", item |-> item_id(od), by |-> p] :
        k \in {r \in {"party", "phone", "address"} :
                 ~\E x \in parties : x.kind = r /\ x.by \in {0, p}}}

\* Lines 121-149: Party.find_or_create_using_ebay_id with the first item's
\* id, add_phone_using_ebay_data, find_or_create_address_using_ebay_data;
\* the buyer lookup asks the marketplace and may raise.
BuyerLookup(p) ==
    /\ At(p, "party")
    /\ \/ /\ parties' = parties \cup BuyerRows(p, call[p].order)
          /\ Goto(p, "uom")
       \/ /\ Raise(p, "api")
          /\ UNCHANGED parties
    /\ UNCHANGED <<sales, excs, products, envVars, returnedFor, lastSave>>

\* Line 150
UomSearch(p) ==
    /\ At(p, "uom")
    /\ IF unit_found = 1 THEN Goto(p, "lines") ELSE Raise(p, "lookup")
    /\ UNCHANGED <<dbVars, envVars, returnedFor, lastSave>>

\* sale_data['lines'] of lines 162-168: the item lines, then the shipping line
sale_lines(order_data) ==
    Append(get_item_line_data_using_ebay_data(order_data),
           get_shipping_line_data_using_ebay_data(order_data))

\* Lines 152-168: the line list; import_product writes the missing products
\* and may raise (it asks the marketplace).
BuildLines(p) ==
    /\ At(p, "lines")
    /\ LET od == call[p].order
           ls == sale_lines(od)
           wanted == {ls[i].product : i \in 1..Len(ls)} \ {""}
           missing == {k \in wanted :
                         ~\E x \in products : x.key = k /\ x.by \in {0, p}}
       IN  \/ /\ products' = products \cup {[key |-> k, by |-> p] : k \in missing}
              /\ call' = [call EXCEPT ![p].pc = "create", ![p].lines = ls]
           \/ /\ Raise(p, "api")
              /\ UNCHANGED products
    /\ UNCHANGED <<sales, excs, parties, envVars, returnedFor, lastSave>>

\* Line 173: cls.create([sale_data]) inserts the draft sale and validates it
SaleCreate(p) ==
    /\ At(p, "create")
    /\ LET sale == [id |-> NewId, ebay_order_id |-> call[p].order.OrderID,
                    state |-> "draft", trace |-> <<"draft">>,
                    lines |-> call[p].lines, by |-> p]
           rows == Reads(p) \cup {sale}
       IN  /\ sales' = sales \cup {sale}
           /\ IF validate({sale}, rows)
              THEN call' = [call EXCEPT ![p].pc = "raised",
                                        ![p].err = "invalid_sale",
                                        ![p].visAtCheck = {s.id : s \in rows}]
              ELSE call' = [call EXCEPT ![p].pc = "compare",
                                        ![p].created = sale.id,
                                        ![p].visAtCheck = {s.id : s \in rows}]
    /\ UNCHANGED <<excs, parties, products, envVars, returnedFor, lastSave>>

TheSale(p) == CHOOSE s \in sales : s.id = call[p].created

\* Variant: the mismatch branch does not return
CompareTotal_no_return(p) ==
    /\ At(p, "compare")
    /\ excs' = IF total_mismatch(TheSale(p), call[p].order)
               THEN excs \cup {[id |-> MaxOf({e.id : e \in excs}) + 1,
                                origin |-> call[p].created, by |-> p]}
               ELSE excs
    /\ Goto(p, "quote")
    /\ UNCHANGED <<sales, parties, products, envVars, returnedFor, lastSave>>

\* Lines 175-183: on a total mismatch write a Channel Exception and return
CompareTotal(p) ==
    /\ At(p, "compare")
    /\ IF total_mismatch(TheSale(p), call[p].order)
       THEN /\ excs' = excs \cup {[id |-> MaxOf({e.id : e \in excs}) + 1,
                                    origin |-> call[p].created, by |-> p]}
            /\ call' = [call EXCEPT ![p].pc = "returned",
                                    ![p].result = call[p].created]
       ELSE /\ Goto(p, "quote")
            /\ UNCHANGED excs
    /\ UNCHANGED <<sales, parties, products, envVars, returnedFor, lastSave>>

SetState(p, st) ==
    sales' = (sales \ {TheSale(p)}) \cup
             {[TheSale(p) EXCEPT !.state = st, !.trace = Append(@, st)]}

\* Variant: a failing quote is swallowed and the sale returned
Quote_swallowed(p) ==
    /\ At(p, "quote")
    /\ \/ SetState(p, "quotation") /\ Goto(p, "confirm")
       \/ /\ call' = [call EXCEPT ![p].pc = "returned",
                                  ![p].result = call[p].created]
          /\ UNCHANGED sales
    /\ UNCHANGED <<excs, parties, products, envVars, returnedFor, lastSave>>

\* Line 186: cls.quote([sale]); the transition may raise
Quote(p) ==
    /\ At(p, "quote")
    /\ \/ SetState(p, "quotation") /\ Goto(p, "confirm")
       \/ Raise(p, "quote") /\ UNCHANGED sales
    /\ UNCHANGED <<excs, parties, products, envVars, returnedFor, lastSave>>

\* Lines 187-191: cls.confirm([sale]); the transition may raise
Confirm(p) ==
    /\ At(p, "confirm")
    /\ \/ /\ SetState(p, "confirmed")
          /\ call' = [call EXCEPT ![p].pc = "returned",
                                  ![p].result = call[p].created]
       \/ Raise(p, "confirm") /\ UNCHANGED sales
    /\ UNCHANGED <<excs, parties, products, envVars, returnedFor, lastSave>>

\* ------------------------------------------------- ambient transaction
Drop(rows, p) == {r \in rows : r.by # p}

\* The call returned: the transaction commits what it wrote
Commit(p) ==
    /\ At(p, "returned")
    /\ sales' = {IF r.by = p THEN [r EXCEPT !.by = 0] ELSE r : r \in sales}
    /\ excs' = {IF r.by = p THEN [r EXCEPT !.by = 0] ELSE r : r \in excs}
    /\ parties' = {IF r.by = p THEN [r EXCEPT !.by = 0] ELSE r : r \in parties}
    /\ products' = {IF r.by = p THEN [r EXCEPT !.by = 0] ELSE r : r \in products}
    /\ Goto(p, "done")
    /\ returnedFor' =
         IF call[p].fn = "find_or_create_using_ebay_id"
            /\ returnedFor[call[p].arg] = 0
         THEN [returnedFor EXCEPT ![call[p].arg] = call[p].result]
         ELSE returnedFor
    /\ UNCHANGED <<envVars, lastSave>>

\* The call raised: the transaction rolls back what it wrote
Rollback(p) ==
    /\ At(p, "raised")
    /\ sales' = Drop(sales, p)
    /\ excs' = Drop(excs, p)
    /\ parties' = Drop(parties, p)
    /\ products' = Drop(products, p)
    /\ Goto(p, "done")
    /\ UNCHANGED <<envVars, returnedFor, lastSave>>

\* The channel's configuration is edited between calls
SetChannel ==
    /\ \A p \in Procs : Free(p)
    /\ channelOK' = ~channelOK
    /\ call' = [p \in Procs |-> NoCall]
    /\ UNCHANGED <<dbVars, nCurrency, nUnit, iso, returnedFor, lastSave>>

\* ------------------------------------------------ plain saves of sales
EbayOrderIds == {""} \cup OrderIDs

\* Sale.create of a sale entered by hand: insert, then validate
PlainCreate ==
    /\ \A p \in Procs : Free(p)
    /\ Cardinality(sales) < MaxSales
    /\ \E eid \in EbayOrderIds :
         LET sale == [id |-> NewId, ebay_order_id |-> eid, state |-> "draft",
                      trace |-> <<"draft">>, lines |-> <<>>, by |-> 0]
             raised == validate({sale}, sales \cup {sale})
         IN  /\ sales' = IF raised THEN sales ELSE sales \cup {sale}
             /\ lastSave' = [kind |-> "create", eid |-> eid,
                             dup |-> \E t \in sales : t.ebay_order_id = eid,
                             ok |-> ~raised, before |-> sales]
    /\ call' = [p \in Procs |-> NoCall]
    /\ UNCHANGED <<excs, parties, products, envVars, returnedFor>>

\* Sale.write of the ebay_order_id of an existing sale: update, then validate
PlainWrite ==
    /\ \A p \in Procs : Free(p)
    /\ \E s \in sales : \E eid \in EbayOrderIds \ {s.ebay_order_id} :
         LET sale == [s EXCEPT !.ebay_order_id = eid]
             raised == validate({sale}, (sales \ {s}) \cup {sale})
         IN  /\ sales' = IF raised THEN sales ELSE (sales \ {s}) \cup {sale}
             /\ lastSave' = [kind |-> "write", eid |-> eid,
                             dup |-> \E t \in sales \ {s} : t.ebay_order_id = eid,
                             ok |-> ~raised, before |-> sales]
    /\ call' = [p \in Procs |-> NoCall]
    /\ UNCHANGED <<excs, parties, products, envVars, returnedFor>>

\* The steps of a call once it is entered
Step(p, marketplace) ==
    \/ ValidateChannel(p)
    \/ GetOrders(p, marketplace)
    \/ CreateValidateChannel(p)
    \/ CurrencySearch(p)
    \/ BuyerLookup(p)
    \/ UomSearch(p)
    \/ BuildLines(p)
    \/ SaleCreate(p)
    \/ CompareTotal(p)
    \/ Quote(p)
    \/ Confirm(p)
    \/ Commit(p)
    \/ Rollback(p)

\* Sequential imports of one order, whose data takes every shape
Next ==
    \/ find_or_create_using_ebay_id(1, "o1")
    \/ \E od \in OrderData("o1") : create_using_ebay_data(1, od)
    \/ Step(1, AllOrders)
    \/ SetChannel

Spec == Init /\ [][Next]_vars

\* Sequential imports and plain saves over both order ids
InitSave == Init /\ channelOK /\ nCurrency = 1 /\ nUnit = 1

NextSave ==
    \/ /\ Cardinality(sales) < MaxSales
       /\ \/ \E oid \in OrderIDs : find_or_create_using_ebay_id(1, oid)
          \/ \E od \in SmallOrders : create_using_ebay_data(1, od)
    \/ Step(1, SmallOrders)
    \/ PlainCreate
    \/ PlainWrite

SpecSave == InitSave /\ [][NextSave]_vars

\* Two imports at a time, under either isolation level
InitConc ==
    /\ sales = {} /\ excs = {} /\ parties = {} /\ products = {}
    /\ channelOK = TRUE
    /\ nCurrency = 1
    /\ nUnit = 1
    /\ iso \in {"read_committed", "repeatable_read"}
    /\ call = [p \in Procs |-> NoCall]
    /\ returnedFor = [o \in OrderIDs |-> 0]
    /\ lastSave = NoSave

\* Each of the two callers makes one call
NextConc ==
    \E p \in Procs :
        \/ /\ call[p].pc = "idle"
           /\ \/ \E oid \in OrderIDs : find_or_create_using_ebay_id(p, oid)
              \/ \E od \in SmallOrders : create_using_ebay_data(p, od)
        \/ Step(p, SmallOrders)

SpecConc == InitConc /\ [][NextConc]_vars

\* ============================================================== claims
Done(p) == call[p].pc = "done"
Succeeded(p) == Done(p) /\ call[p].err = ""
Failed(p) == Done(p) /\ call[p].err # ""
IsFind(p) == call[p].fn = "find_or_create_using_ebay_id"
AllCommitted == \A r \in sales \cup excs \cup parties \cup products : r.by = 0
SaleOf(id) == CHOOSE s \in sales : s.id = id
ExcsOf(id) == {e \in excs : e.origin = id}

\* The order's item line totals plus its shipping cost, from the order data
OrderItemsTotal(od) ==
    IF od.Transaction.tag = "dict"
    THEN od.Transaction.dict.TransactionPrice * od.Transaction.dict.QuantityPurchased
    ELSE SumSeq([i \in 1..Len(od.Transaction.list) |->
                    od.Transaction.list[i].TransactionPrice
                      * od.Transaction.list[i].QuantityPurchased])
OrderShipping(od) ==
    IF od.ShippingServiceCost = Absent THEN 0 ELSE od.ShippingServiceCost
OrderMatches(od) == OrderItemsTotal(od) + OrderShipping(od) = od.Total

\* The call built a sale that exists now
Built(p) ==
    /\ call[p].created # 0
    /\ call[p].pc \in {"compare", "quote", "confirm", "returned"} \/ Succeeded(p)

\* C1: sequential saves and imports leave at most one persisted sale per non-empty
\* ebay_order_id; a save is rejected exactly when its non-empty id is held by
\* another sale, and then it adds nothing; an import rejected with
\* 'invalid_sale' adds no sale; a sale with an empty id is never rejected.
C1_OneSalePerOrderId ==
    /\ \A s, t \in Committed(sales) :
         s.ebay_order_id = t.ebay_order_id /\ s.ebay_order_id # "" => s.id = t.id
    /\ lastSave.kind # "none" =>
         /\ lastSave.ok <=> ~(lastSave.eid # "" /\ lastSave.dup)
         /\ ~lastSave.ok => sales = lastSave.before
    /\ \A p \in Procs :
         /\ Built(p) => ~\E t \in call[p].pre.sales :
                            t.ebay_order_id = call[p].order.OrderID
         /\ Done(p) /\ call[p].err = "invalid_sale" =>
              /\ Committed(sales) = call[p].pre.sales
              /\ \E t \in call[p].pre.sales :
                    t.ebay_order_id = call[p].order.OrderID

\* A plain save was rejected as a duplicate while two sales share the
\* empty id
C1_Witness ==
    /\ lastSave.kind # "none" /\ ~lastSave.ok
    /\ \E s, t \in sales : s.id # t.id /\ s.ebay_order_id = "" /\ t.ebay_order_id = ""

\* C2: once find_or_create_using_ebay_id has returned a sale for an order
\* id, a later call with that id returns the same sale, validates no
\* channel, asks no API and writes nothing.
C2_Idempotent ==
    \A p \in Procs :
        IsFind(p) /\ call[p].known # 0 =>
            /\ call[p].pc \in {"returned", "done"}
            /\ call[p].result = call[p].known
            /\ call[p].err = ""
            /\ ~call[p].validated
            /\ ~call[p].api
            /\ AllCommitted
            /\ CommittedDb = call[p].pre

\* A repeated call returned the sale although the channel is misconfigured
C2_Witness ==
    \E p \in Procs :
        /\ IsFind(p) /\ Done(p) /\ call[p].known # 0
        /\ ~channelOK
        /\ call[p].result = call[p].known

\* C3: a sale built from an order whose line totals plus shipping equal the
\* reported total is confirmed through draft, quotation, confirmed when
\* the call returns, and has no Channel Exception.
C3_MatchConfirms ==
    /\ \A s \in sales :
         s.trace \in {<<"draft">>, <<"draft", "quotation">>,
                      <<"draft", "quotation", "confirmed">>}
    /\ \A p \in Procs :
         Built(p) /\ OrderMatches(call[p].order) =>
            /\ ExcsOf(call[p].created) = {}
            /\ call[p].pc = "returned" \/ Done(p) =>
                 /\ call[p].result = call[p].created
                 /\ SaleOf(call[p].created).state = "confirmed"
                 /\ SaleOf(call[p].created).trace =
                        <<"draft", "quotation", "confirmed">>

\* An order with a shipping cost whose totals match was imported and confirmed
C3_Witness ==
    \E p \in Procs :
        /\ Succeeded(p) /\ call[p].created # 0
        /\ OrderMatches(call[p].order)
        /\ call[p].order.ShippingServiceCost > 0
        /\ SaleOf(call[p].created).state = "confirmed"

\* C4: a sale built from an order whose line totals plus shipping differ
\* from the reported total gets exactly one Channel Exception, stays a
\* draft, and the call returns it without raising.
C4_MismatchFlags ==
    \A p \in Procs :
        Built(p) /\ ~OrderMatches(call[p].order) =>
            /\ call[p].pc \in {"compare", "returned", "done"}
            /\ call[p].err = ""
            /\ SaleOf(call[p].created).trace = <<"draft">>
            /\ call[p].pc # "compare" =>
                 /\ Cardinality(ExcsOf(call[p].created)) = 1
                 /\ call[p].result = call[p].created

\* An order whose sale total is below the reported total came back flagged
C4_Witness ==
    \E p \in Procs :
        /\ Succeeded(p) /\ call[p].created # 0
        /\ OrderItemsTotal(call[p].order) + OrderShipping(call[p].order)
             < call[p].order.Total
        /\ Cardinality(ExcsOf(call[p].created)) = 1

\* C5: no sale is both confirmed and referenced by a Channel Exception, and
\* the sale a finished import returns is either confirmed without exception
\* or unconfirmed with one.
C5_ExclusiveOutcomes ==
    /\ \A s \in sales : ~(s.state = "confirmed" /\ ExcsOf(s.id) # {})
    /\ \A p \in Procs :
         Succeeded(p) =>
            LET s == SaleOf(call[p].result)
            IN  /\ call[p].result # 0
                /\ \/ s.state = "confirmed" /\ ExcsOf(s.id) = {}
                   \/ s.state # "confirmed" /\ ExcsOf(s.id) # {}

\* A repeated import returned a flagged, unconfirmed sale
C5_Witness ==
    \E p \in Procs :
        /\ Succeeded(p) /\ call[p].known # 0
        /\ SaleOf(call[p].result).state = "draft"
        /\ ExcsOf(call[p].result) # {}

\* C6: with no sale holding the order id and a misconfigured channel,
\* find_or_create_using_ebay_id raises the configuration error before any
\* API use and creates no sale; create_using_ebay_data likewise raises
\* before it writes anything.
C6_ConfigErrorFirst ==
    \A p \in Procs :
        /\ ~channelOK
        /\ call[p].pc \notin {"idle", "validate", "c_validate"}
        /\ ~\E s \in call[p].pre.sales : s.ebay_order_id = call[p].arg
        => /\ call[p].err = "config"
           /\ (IsFind(p) => ~call[p].api)
           /\ call[p].created = 0
           /\ AllCommitted
           /\ CommittedDb = call[p].pre

\* A find-or-create call ended with the configuration error
C6_Witness ==
    \E p \in Procs :
        IsFind(p) /\ Failed(p) /\ call[p].err = "config" /\ ~call[p].api

\* C7: a call that fails raises and leaves the persisted rows as they were
\* when it began; a call that returns a sale it built leaves it either
\* confirmed or, only on a total mismatch, unconfirmed with its exception.
C7_AllOrNothing ==
    \A p \in Procs :
        /\ call[p].pc = "raised" => call[p].err # "" /\ call[p].result = 0
        /\ Failed(p) =>
             /\ call[p].result = 0
             /\ AllCommitted
             /\ CommittedDb = call[p].pre
        /\ Succeeded(p) /\ call[p].created # 0 =>
             \/ SaleOf(call[p].created).state = "confirmed"
             \/ /\ ~OrderMatches(call[p].order)
                /\ ExcsOf(call[p].created) # {}

\* A call failed in confirm, after its sale was created and quoted
C7_Witness ==
    \E p \in Procs :
        /\ Failed(p) /\ call[p].err = "confirm" /\ call[p].created # 0
        /\ CommittedDb = call[p].pre

\* Sales that passed validation: all but the row of a call that is raising
Standing == {s \in sales : s.by = 0 \/ call[s.by].pc # "raised"}

\* C8: the duplicate check is the only guard between concurrent imports: a
\* call creates its sale whenever the check saw no other sale with the id,
\* so two sales share an id only when neither call's check saw the other's
\* sale.
C8_RaceUnguarded ==
    /\ \A p \in Procs :
         Built(p) =>
            ~\E t \in sales : /\ t.id \in call[p].visAtCheck
                              /\ t.id # call[p].created
                              /\ t.ebay_order_id = call[p].order.OrderID
    /\ \A s, t \in Standing :
         s.id # t.id /\ s.ebay_order_id = t.ebay_order_id /\ s.ebay_order_id # "" =>
            \E p, q \in Procs :
                /\ p # q
                /\ call[p].created = s.id /\ call[q].created = t.id
                /\ t.id \notin call[p].visAtCheck
                /\ s.id \notin call[q].visAtCheck

\* Two find-or-create calls for one order id both committed a sale
C8_Witness ==
    /\ \A p \in Procs : IsFind(p) /\ Succeeded(p) /\ call[p].created # 0
    /\ call[1].arg = call[2].arg
    /\ \E s, t \in Committed(sales) :
         s.id # t.id /\ s.ebay_order_id = t.ebay_order_id /\ s.ebay_order_id # ""

\* C9 as stated: a sale is built only when exactly one currency and exactly
\* one 'Unit' unit of measure match.
C9_ExactlyOneEach ==
    \A p \in Procs : Built(p) => nCurrency = 1 /\ nUnit = 1

PastCurrency == {"party", "uom", "lines", "create", "compare", "quote", "confirm"}
PastUom == PastCurrency \ {"party", "uom"}

\* C9 amended: the import goes past the currency search when at least one
\* currency matches (the search is limited to one record) and past the unit
\* search only when exactly one 'Unit' matches; otherwise it raises and no
\* sale is built.
C9_LookupsAmended ==
    \A p \in Procs :
        /\ call[p].pc \in PastCurrency => nCurrency >= 1
        /\ call[p].pc \in PastUom => nUnit = 1
        /\ call[p].created # 0 => nCurrency >= 1 /\ nUnit = 1
        /\ call[p].err = "lookup" =>
             /\ nCurrency = 0 \/ nUnit # 1
             /\ call[p].created = 0

\* A sale was built although two currencies match the order's code
C9_Witness ==
    \E p \in Procs : Succeeded(p) /\ call[p].created # 0 /\ nCurrency = 2

\* The n-th transaction of an order, read from the order data
NthItem(od, i) ==
    IF od.Transaction.tag = "dict" THEN od.Transaction.dict
    ELSE od.Transaction.list[i]
NumItems(od) ==
    IF od.Transaction.tag = "dict" THEN 1 ELSE Len(od.Transaction.list)
\* A one-item order with its transaction wrapped in a one-element list
Wrapped(od) ==
    [od EXCEPT !.Transaction =
        [tag |-> "list", dict |-> NoItem, list |-> <<od.Transaction.dict>>]]

\* C10: the line list of a built sale is the n item lines in transaction
\* order followed by the one shipping line; a bare-mapping transaction and
\* the same transaction in a one-element list give the same lines and the
\* same item id for the buyer lookup.
C10_LineList ==
    \A p \in Procs :
        /\ Built(p) =>
             LET od == call[p].order
                 ls == SaleOf(call[p].created).lines
                 n  == NumItems(od)
             IN  /\ n >= 1
                 /\ Len(ls) = n + 1
                 /\ \A i \in 1..n :
                      /\ ls[i].description = NthItem(od, i).Title
                      /\ ls[i].unit_price = NthItem(od, i).TransactionPrice
                      /\ ls[i].quantity = NthItem(od, i).QuantityPurchased
                      /\ ls[i].product = NthItem(od, i).ItemID
                 /\ ls[n + 1].description = "eBay Shipping and Handling"
                 /\ ls[n + 1].unit_price = OrderShipping(od)
                 /\ ls[n + 1].quantity = 1
                 /\ \A i \in 1..n : ls[i].description # "eBay Shipping and Handling"
                 /\ \A r \in parties : r.by = p => r.item = NthItem(od, 1).ItemID
        /\ Built(p) /\ call[p].order.Transaction.tag = "dict" =>
             /\ sale_lines(Wrapped(call[p].order)) = SaleOf(call[p].created).lines
             /\ item_id(Wrapped(call[p].order)) = item_id(call[p].order)

\* A sale was built from a list of MaxItems transactions that differ
C10_Witness ==
    \E p \in Procs :
        /\ Succeeded(p) /\ call[p].created # 0
        /\ call[p].order.Transaction.tag = "list"
        /\ Len(call[p].order.Transaction.list) = MaxItems
        /\ call[p].order.Transaction.list[1] # call[p].order.Transaction.list[2]
        /\ Len(SaleOf(call[p].created).lines) = MaxItems + 1

====
